---- MODULE Spec2Model ----
(***************************************************************************)
(* AnimationSystem (src/lib/animationsystem.cpp): an ordered collection of *)
(* Animation objects with a current index, one AnimationPlayback bound to  *)
(* the current animation, and a counter that generates default names.      *)
(*                                                                         *)
(* Every member function is an operator on a record of the object's state  *)
(* that yields the SET of states the call can end in: a call has several   *)
(* outcomes only where the code reads QVector out of range, which is an    *)
(* assertion failure in a debug build and a wild read in a release build.  *)
(* Indices are 0-based as in the code; anims[i + 1] is mAnimations.at(i).  *)
(***************************************************************************)
EXTENDS Integers, Sequences, FiniteSets, TLC

VARIABLES
    objs,                       \* the heap of Animation objects, [name, parent] each;
                                \* a pointer is an index into objs
    mAnimations,                \* QVector<Animation*>
    mCurrentAnimationIndex,     \* int
    mCurrentAnimationPlayback,  \* AnimationPlayback: [animation], the animation it is bound to
    mAnimationsCreated,         \* int
    emitted,                    \* the signals the last call emitted, in order
    lastOp,                     \* the last call: its name, arguments and return value
    pre,                        \* the members as they were when the last call began
    aborted                     \* a Q_ASSERT failed: the process is gone

vars == <<objs, mAnimations, mCurrentAnimationIndex, mCurrentAnimationPlayback,
          mAnimationsCreated, emitted, lastOp, pre, aborted>>

-----------------------------------------------------------------------------
(* Bounds *)

\* Animation objects that exist at one time and that a call can still reach.
MaxObjects == 2
\* The largest value mAnimationsCreated takes.
MaxCreated == 2
\* Entries of the "animations" array of a document given to read().
MaxRead == 2

-----------------------------------------------------------------------------
(* Pointers *)

\* nullptr
NoAnimation == 0
\* what a read past the end of the vector's storage yields in a release build:
\* a value the program does not control, equal to no pointer it means
WildPointer == -1
\* Q_ASSERT_X in QVector::at / takeAt fails (debug build)
AssertFailed == -2

\* "no current animation"
NoIndex == -1

-----------------------------------------------------------------------------
(* Names: a QString is a sequence of pieces, digits one by one *)

DigitChar == <<"0", "1", "2", "3", "4", "5", "6", "7", "8", "9">>

RECURSIVE arg(_)
\* QString::arg(int): the decimal digits of n
arg(n) == IF n < 10 THEN <<DigitChar[n + 1]>>
          ELSE arg(n \div 10) \o <<DigitChar[(n % 10) + 1]>>

\* QString()
EmptyString == <<>>

peekNextGeneratedName(s) == <<"Animation ">> \o arg(s.created + 1)

\* The names the animations of a document carry, and the name of an animation a
\* caller makes itself.
DocumentNames == {<<"Animation ">> \o arg(1)}
CallerNames == {<<"walk">>}

-----------------------------------------------------------------------------
(* Signals *)

\* a signal, with what a slot that reads the object during the emission sees
Signal(s, name, index) ==
    [signal |-> name, index |-> index, animations |-> s.anims, current |-> s.cur]

emit(s, name, index) == [s EXCEPT !.emitted = Append(@, Signal(s, name, index))]

\* signals without an argument
emit0(s, name) ==
    [s EXCEPT !.emitted = Append(@, [signal |-> name, animations |-> s.anims,
                                     current |-> s.cur])]

preAnimationAdded(s, index) == emit(s, "preAnimationAdded", index)

\* the post signal carrying the index that follows the one announced
postAnimationAdded_NextIndex(s, index) == emit(s, "postAnimationAdded", index + 1)

postAnimationAdded(s, index) == emit(s, "postAnimationAdded", index)

preAnimationRemoved(s, index) == emit(s, "preAnimationRemoved", index)

postAnimationRemoved(s, index) == emit(s, "postAnimationRemoved", index)

animationCountChanged(s) == emit0(s, "animationCountChanged")

currentAnimationIndexChanged(s) == emit0(s, "currentAnimationIndexChanged")

-----------------------------------------------------------------------------
(* Sequencing of calls over sets of outcomes *)

\* continue with F from every outcome that did not abort
Then(S, F(_)) == UNION {IF x.aborted THEN {x} ELSE F(x) : x \in S}

abort(s) == [s EXCEPT !.aborted = TRUE]

InsertAt(seq, i, x) == SubSeq(seq, 1, i) \o <<x>> \o SubSeq(seq, i + 1, Len(seq))

RemoveAt(seq, i) == SubSeq(seq, 1, i) \o SubSeq(seq, i + 2, Len(seq))

-----------------------------------------------------------------------------
(* AnimationPlayback (external collaborator): of its state only the animation  *)
(* it is bound to is kept; its scale, loop and playing fields, which read()    *)
(* sets, are read by nothing in AnimationSystem.                               *)

InitialPlayback == [animation |-> NoAnimation]

setAnimation(s, animation) == [s EXCEPT !.playback.animation = animation]

playbackReset(s) == [s EXCEPT !.playback = InitialPlayback]

-----------------------------------------------------------------------------
(* AnimationSystem *)

\* the range check with its lower comparison off by one
isValidIndexOrWarn_FromOne(s, index) == ~(index <= 0 \/ index > Len(s.anims))

isValidIndexOrWarn(s, index) == ~(index < 0 \/ index > Len(s.anims))

\* QVector::at(i): the element, or any outcome of an out-of-range read
at(s, i) ==
    IF i >= 0 /\ i < Len(s.anims) THEN {s.anims[i + 1]}
    ELSE {AssertFailed, WildPointer}

currentAnimation(s) ==
    IF s.cur = -1 THEN {NoAnimation} ELSE at(s, s.cur)

setCurrentAnimationIndex(s, index) ==
    IF ~isValidIndexOrWarn(s, index) THEN {s}
    ELSE IF index = s.cur THEN {s}
    ELSE LET s1 == [s EXCEPT !.cur = index]
         IN  {IF a = AssertFailed THEN abort(s1)
              ELSE currentAnimationIndexChanged(setAnimation(s1, a))
                : a \in currentAnimation(s1)}

\* a search that always ends at end()
findAnimationWithName_End(s, name) == Len(s.anims)

\* the position of the first animation with this name, or Len (end())
findAnimationWithName(s, name) ==
    LET hits == {i \in 0 .. Len(s.anims) - 1 : s.objs[s.anims[i + 1]].name = name}
    IN  IF hits = {} THEN Len(s.anims)
        ELSE CHOOSE i \in hits : \A j \in hits : i <= j

\* a search that never finds the animation
indexOf_NeverFound(s, animation) == -1

\* QVector::indexOf
indexOf(s, animation) ==
    LET hits == {i \in 0 .. Len(s.anims) - 1 : s.anims[i + 1] = animation}
    IN  IF hits = {} THEN -1
        ELSE CHOOSE i \in hits : \A j \in hits : i <= j

\* A slot of the heap that holds no object a call can reach.
Unreachable == [name |-> EmptyString, parent |-> "unreachable"]

FreeSlots(s) == {a \in 1 .. MaxObjects : s.objs[a] = Unreachable}

\* the pointer the next new Animation gets
newPointer(s) == CHOOSE a \in FreeSlots(s) : \A b \in FreeSlots(s) : a <= b

\* new Animation with the given name and QObject parent
newAnimation(s, name, parent) ==
    [s EXCEPT !.objs[newPointer(s)] = [name |-> name, parent |-> parent]]

setParent(s, animation, parent) ==
    [s EXCEPT !.objs[animation].parent = parent]

addNewAnimation(s) ==
    LET name == peekNextGeneratedName(s)
    IN  IF findAnimationWithName(s, name) # Len(s.anims)
        THEN {[s EXCEPT !.name = EmptyString]}
        ELSE LET addIndex == Len(s.anims) - 1
                 s1 == preAnimationAdded(s, addIndex)
                 s2 == [s1 EXCEPT !.created = @ + 1]
                 animation == newPointer(s2)
                 s3 == newAnimation(s2, name, "nullptr")
                 s4 == [s3 EXCEPT !.anims = Append(@, animation)]
                 S5 == IF Len(s4.anims) = 1 THEN setCurrentAnimationIndex(s4, 0)
                       ELSE {s4}
             IN  Then(S5, LAMBDA x :
                     {[postAnimationAdded(x, addIndex) EXCEPT !.name = name]})

addAnimation(s, animation, index) ==
    LET existingIndex == indexOf(s, animation)
    IN  IF existingIndex # -1 THEN {s}
        ELSE IF ~isValidIndexOrWarn(s, index) THEN {s}
        ELSE LET s1 == preAnimationAdded(s, index)
                 s2 == setParent(s1, animation, "this")
                 s3 == [s2 EXCEPT !.anims = InsertAt(@, index, animation)]
                 S4 == IF Len(s3.anims) = 1 THEN setCurrentAnimationIndex(s3, 0)
                       ELSE IF index <= s3.cur
                            THEN setCurrentAnimationIndex(s3, s3.cur + 1)
                            ELSE {s3}
             IN  Then(S4, LAMBDA x :
                     {animationCountChanged(postAnimationAdded(x, index))})

takeAnimationByName(s, name) ==
    LET animationIt == findAnimationWithName(s, name)
    IN  IF animationIt = Len(s.anims) THEN {s}
        ELSE LET removedIndex == animationIt
                 s1 == preAnimationRemoved(s, removedIndex)
                 S2 == IF Len(s1.anims) = 1 THEN setCurrentAnimationIndex(s1, -1)
                       ELSE {s1}
                 S3 == Then(S2, LAMBDA x :
                           IF removedIndex <= x.cur
                           THEN setCurrentAnimationIndex(x, x.cur - 1)
                           ELSE {x})
             IN  Then(S3, LAMBDA x :
                     LET x1 == [x EXCEPT !.anims = RemoveAt(@, animationIt)]
                     IN  {animationCountChanged(postAnimationRemoved(x1, removedIndex))})

animationAt(s, index) ==
    IF ~isValidIndexOrWarn(s, index) THEN {[s EXCEPT !.result = NoAnimation]}
    ELSE {IF a = AssertFailed THEN abort(s) ELSE [s EXCEPT !.result = a]
            : a \in at(s, index)}

\* a removal that also rebases the current index, as the removal by name does
takeAt_Rebasing(s, i) ==
    IF i >= 0 /\ i < Len(s.anims)
    THEN {[s EXCEPT !.anims = RemoveAt(@, i), !.result = s.anims[i + 1],
                    !.cur = IF i <= @ THEN @ - 1 ELSE @]}
    ELSE {abort(s), [s EXCEPT !.result = WildPointer]}

\* QVector::takeAt(i): the element removed, or any outcome of taking past the end:
\* the assertion fails, or a wild value is read and the storage is left as it was
takeAt(s, i) ==
    IF i >= 0 /\ i < Len(s.anims)
    THEN {[s EXCEPT !.anims = RemoveAt(@, i), !.result = s.anims[i + 1]]}
    ELSE {abort(s), [s EXCEPT !.result = WildPointer]}

takeAnimationAt(s, index) ==
    IF ~isValidIndexOrWarn(s, index) THEN {[s EXCEPT !.result = NoAnimation]}
    ELSE LET s1 == preAnimationRemoved(s, index)
             S2 == takeAt(s1, index)
             \* animation->setParent(nullptr): through a pointer that is no object
             \* the call faults or writes nowhere the model sees
             S3 == Then(S2, LAMBDA x :
                       IF x.result \in 1 .. MaxObjects
                       THEN {setParent(x, x.result, "nullptr")}
                       ELSE {abort(x), x})
         IN  Then(S3, LAMBDA x :
                 {animationCountChanged(postAnimationRemoved(x, index))})

\* the name taken without counting it
takeNextGeneratedName_NotCounted(s) == s

takeNextGeneratedName(s) == [s EXCEPT !.created = @ + 1]

RECURSIVE appendRead(_, _)
\* the loop of read(): one new Animation(this) per array entry, appended
appendRead(s, names) ==
    IF names = <<>> THEN s
    ELSE LET s1 == newAnimation(s, Head(names), "this")
         IN  appendRead([s1 EXCEPT !.anims = Append(@, newPointer(s))], Tail(names))

\* a read that counts the animations it loads as created
read_Counting(s, json) ==
    IF json.fps
    THEN LET name == peekNextGeneratedName(s)
             s1 == newAnimation(takeNextGeneratedName(s), name, "nullptr")
         IN  addAnimation(s1, newPointer(s), 0)
    ELSE {[appendRead(s, json.animations) EXCEPT !.created = @ + Len(json.animations)]}

read(s, json) ==
    IF json.fps
    THEN LET name == peekNextGeneratedName(s)
             s1 == newAnimation(takeNextGeneratedName(s), name, "nullptr")
         IN  addAnimation(s1, newPointer(s), 0)
    ELSE {appendRead(s, json.animations)}

reset(s) ==
    {[playbackReset([s EXCEPT !.anims = <<>>]) EXCEPT !.created = 0]}

-----------------------------------------------------------------------------
(* The object as a record, and calls as actions *)

\* An Animation that is not in the sequence and that the playback is not bound to
\* takes part in no later call: the code never deletes it, but when the next call
\* begins the model drops it and its slot is free for a new object.
Reachable(a) ==
    \/ \E i \in 1 .. Len(mAnimations) : mAnimations[i] = a
    \/ mCurrentAnimationPlayback.animation = a

State ==
    [objs |-> [a \in 1 .. MaxObjects |-> IF Reachable(a) THEN objs[a] ELSE Unreachable],
     anims |-> mAnimations, cur |-> mCurrentAnimationIndex,
     playback |-> mCurrentAnimationPlayback, created |-> mAnimationsCreated,
     emitted |-> <<>>, aborted |-> FALSE, result |-> NoAnimation, name |-> EmptyString]

Members ==
    [anims |-> mAnimations, cur |-> mCurrentAnimationIndex,
     playback |-> mCurrentAnimationPlayback, created |-> mAnimationsCreated]

\* the record of a call: what was called and with which arguments; result and
\* name are filled in with what the call returned
Args(op, index, animation, nameArg) ==
    [op |-> op, index |-> index, animation |-> animation, nameArg |-> nameArg,
     result |-> NoAnimation, name |-> EmptyString]

Call(op, outcomes) ==
    /\ ~aborted
    /\ \E t \in outcomes :
        /\ objs' = t.objs
        /\ mAnimations' = t.anims
        /\ mCurrentAnimationIndex' = t.cur
        /\ mCurrentAnimationPlayback' = t.playback
        /\ mAnimationsCreated' = t.created
        /\ emitted' = t.emitted
        /\ aborted' = t.aborted
        /\ lastOp' = [op EXCEPT !.result = t.result, !.name = t.name]
        /\ pre' = Members

\* index arguments: every position, one before the first and two past the last
Indices == -1 .. Len(mAnimations) + 1

\* sequences over S of length at most n
SeqUpTo(S, n) == UNION {[1 .. k -> S] : k \in 0 .. n}

\* a document: whether it has the "fps" key of the old format, and the names of
\* the entries of its "animations" array
Documents ==
    {[fps |-> TRUE, animations |-> <<>>]}
    \cup {[fps |-> FALSE, animations |-> a] : a \in SeqUpTo(DocumentNames, MaxRead)}

\* the members of a new AnimationSystem
InitialMembers ==
    [anims |-> <<>>, cur |-> NoIndex, playback |-> InitialPlayback, created |-> 0]

Init ==
    /\ objs = [a \in 1 .. MaxObjects |-> Unreachable]
    /\ mAnimations = InitialMembers.anims
    /\ mCurrentAnimationIndex = InitialMembers.cur
    /\ mCurrentAnimationPlayback = InitialMembers.playback
    /\ mAnimationsCreated = InitialMembers.created
    /\ emitted = <<>>
    /\ lastOp = Args("AnimationSystem", NoIndex, NoAnimation, EmptyString)
    /\ pre = Members
    /\ aborted = FALSE

CallSetCurrentAnimationIndex ==
    \E index \in Indices :
        Call(Args("setCurrentAnimationIndex", index, NoAnimation, EmptyString),
             setCurrentAnimationIndex(State, index))

CallAddNewAnimation ==
    /\ FreeSlots(State) # {}
    /\ mAnimationsCreated < MaxCreated
    /\ Call(Args("addNewAnimation", NoIndex, NoAnimation, EmptyString), addNewAnimation(State))

\* the caller passes an animation of the collection, or one outside it: an
\* animation it has made, or one it took earlier, which is an object outside the
\* sequence with no parent like one just made (and is modelled as one)
CallAddAnimation ==
    \E index \in Indices :
        \/ /\ index \in {0, Len(mAnimations) + 1}
           /\ \E animation \in {mAnimations[i] : i \in 1 .. Len(mAnimations)} :
            Call(Args("addAnimation", index, animation, EmptyString),
                 addAnimation(State, animation, index))
        \/ /\ FreeSlots(State) # {}
           /\ \E name \in CallerNames :
                LET s == newAnimation(State, name, "nullptr")
                IN  Call(Args("addAnimation", index, newPointer(State), EmptyString),
                         addAnimation(s, newPointer(State), index))

CallTakeAnimationByName ==
    \E name \in DocumentNames \cup CallerNames \cup {peekNextGeneratedName(State)}
                \cup {objs[mAnimations[i]].name : i \in 1 .. Len(mAnimations)} :
        Call(Args("takeAnimationByName", NoIndex, NoAnimation, name),
             takeAnimationByName(State, name))

CallAnimationAt ==
    \E index \in Indices :
        Call(Args("animationAt", index, NoAnimation, EmptyString),
             animationAt(State, index))

CallTakeAnimationAt ==
    \E index \in Indices :
        Call(Args("takeAnimationAt", index, NoAnimation, EmptyString),
             takeAnimationAt(State, index))

CallRead ==
    \E json \in Documents :
        /\ (IF json.fps THEN 1 ELSE Len(json.animations)) <= Cardinality(FreeSlots(State))
        /\ json.fps => mAnimationsCreated < MaxCreated
        /\ Call(Args(IF json.fps THEN "readLegacy" ELSE "read", NoIndex, NoAnimation,
                     EmptyString),
                read(State, json))

CallReset ==
    Call(Args("reset", NoIndex, NoAnimation, EmptyString), reset(State))

Next ==
    \/ CallSetCurrentAnimationIndex
    \/ CallAddNewAnimation
    \/ CallAddAnimation
    \/ CallTakeAnimationByName
    \/ CallAnimationAt
    \/ CallTakeAnimationAt
    \/ CallRead
    \/ CallReset

Spec == Init /\ [][Next]_vars

-----------------------------------------------------------------------------
(* Vocabulary of the properties *)

\* the last call was op, and it returned
Called(op) == lastOp.op = op /\ ~aborted

Count == Len(mAnimations)

\* the positions in emitted of the signals of this name
Emitted(name) == {i \in 1 .. Len(emitted) : emitted[i].signal = name}

Elements(seq) == {seq[i] : i \in 1 .. Len(seq)}

NamesIn(seq) == {objs[seq[i]].name : i \in 1 .. Len(seq)}

\* the last call changed no member
MembersUnchanged == Members = pre

\* the last call was one of the four structural mutations, and changed the sequence
Added == (Called("addNewAnimation") \/ Called("addAnimation")) /\ mAnimations # pre.anims

Removed ==
    (Called("takeAnimationByName") \/ Called("takeAnimationAt")) /\ mAnimations # pre.anims

\* one matched pair of signals around the change of the sequence
MatchedPair(before, after) ==
    /\ Cardinality(Emitted(before)) = 1
    /\ Cardinality(Emitted(after)) = 1
    /\ \A i \in Emitted(before), j \in Emitted(after) :
        /\ i < j
        /\ emitted[i].index = emitted[j].index
        /\ emitted[i].animations = pre.anims
        /\ emitted[j].animations = mAnimations

-----------------------------------------------------------------------------
(* Properties *)

\* C1: after every completed call, currentIndex lies in [-1, size - 1].
C1_CurrentIndexInRange ==
    ~aborted => mCurrentAnimationIndex \in -1 .. Count - 1

\* C2: after every completed call, the animation the playback is bound to is
\* what currentAnimation() returns: the element at currentIndex, none at -1.
C2_PlaybackBoundToCurrent ==
    ~aborted => currentAnimation(State) = {mCurrentAnimationPlayback.animation}

\* C3: while the collection is not empty currentIndex is the index of an
\* element, and currentIndex is -1 only while the collection is empty.
C3_SelectionWhileNonEmpty ==
    ~aborted =>
        /\ Count > 0 => mCurrentAnimationIndex \in 0 .. Count - 1
        /\ mCurrentAnimationIndex = -1 => Count = 0

\* C4: after setCurrentIndex(i) with i the index of an element (also i equal to
\* currentIndex), currentAnimation() is the element at i and the playback is
\* bound to that element.
C4_SetCurrentIndexSelects ==
    (Called("setCurrentAnimationIndex") /\ lastOp.index \in 0 .. Len(pre.anims) - 1) =>
        /\ currentAnimation(State) = {mAnimations[lastOp.index + 1]}
        /\ mCurrentAnimationPlayback.animation = mAnimations[lastOp.index + 1]

\* C5: a removal (by name or by index) of the only animation leaves
\* currentIndex = -1 and currentAnimation() returning none.
C5_RemovingLastDeselects ==
    (Removed /\ Len(pre.anims) = 1 /\ Count = 0) =>
        /\ mCurrentAnimationIndex = -1
        /\ currentAnimation(State) = {NoAnimation}

\* C6: a successful insertAnimation(animation, p) into a non-empty collection
\* with current index c leaves currentIndex = c + 1 when p <= c, and c when p > c.
C6_InsertShiftsCurrentIndex ==
    (Called("addAnimation") /\ Len(pre.anims) >= 1 /\ mAnimations # pre.anims) =>
        mCurrentAnimationIndex =
            IF lastOp.index <= pre.cur THEN pre.cur + 1 ELSE pre.cur

\* C7: createAnimation on an empty collection succeeds and leaves one
\* animation, currentIndex = 0 and currentAnimation() the animation created.
C7_CreateInEmptySelects ==
    (Called("addNewAnimation") /\ pre.anims = <<>>) =>
        /\ lastOp.name # EmptyString
        /\ Count = 1
        /\ mCurrentAnimationIndex = 0
        /\ currentAnimation(State) = {mAnimations[1]}
        /\ objs[mAnimations[1]].name = lastOp.name

\* C7 happens: createAnimation on a collection emptied with a stale current index.
C7_Witness ==
    /\ Called("addNewAnimation")
    /\ pre.anims = <<>>
    /\ pre.cur > 0
    /\ Count = 1

\* C8: a structural mutation that succeeds emits exactly one pre and one post
\* signal of its kind (added / removed), and none of the other kind, both with
\* the same index; the pre signal is emitted while the sequence is as before the
\* call, the post signal when it is as after the call.
C8_MatchedNotifications ==
    /\ Added =>
        /\ MatchedPair("preAnimationAdded", "postAnimationAdded")
        /\ Emitted("preAnimationRemoved") \cup Emitted("postAnimationRemoved") = {}
    /\ Removed =>
        /\ MatchedPair("preAnimationRemoved", "postAnimationRemoved")
        /\ Emitted("preAnimationAdded") \cup Emitted("postAnimationAdded") = {}

\* C8 happens: a removal by name that also moved the current index, so that
\* another signal lies between the pair.
C8_Witness ==
    /\ Called("takeAnimationByName")
    /\ mAnimations # pre.anims
    /\ Emitted("currentAnimationIndexChanged") # {}

\* the last call was a mutation the code refuses
RefusedMutation ==
    \/ Called("takeAnimationByName") /\ lastOp.nameArg \notin NamesIn(pre.anims)
    \/ Called("addAnimation") /\ lastOp.animation \in Elements(pre.anims)
    \/ Called("addAnimation") /\ lastOp.index \notin 0 .. Len(pre.anims)

\* C9: a refused mutation (removing a name that is not there, inserting an
\* animation that is already there, inserting at an index outside [0, size])
\* changes no member and emits no signal.
C9_RefusedMutationChangesNothing ==
    RefusedMutation => MembersUnchanged /\ emitted = <<>>

\* C9 happens: an animation of a non-empty collection is inserted again.
C9_Witness ==
    /\ Called("addAnimation")
    /\ lastOp.animation \in Elements(pre.anims)
    /\ lastOp.index \in 0 .. Len(pre.anims)

\* C10: animationAt(i) and takeAnimation(i) with i not the index of an element
\* (i < 0 or i >= size) return none, change no member and emit no signal.
C10_InvalidIndexRefused ==
    ((Called("animationAt") \/ Called("takeAnimationAt"))
        /\ lastOp.index \notin 0 .. Len(pre.anims) - 1) =>
        /\ lastOp.result = NoAnimation
        /\ MembersUnchanged
        /\ emitted = <<>>

\* the name createAnimation generates in the state the last call began in
GeneratedBefore == <<"Animation ">> \o arg(pre.created + 1)

\* C11: createAnimation succeeds only when the generated name "Animation
\* (createdCount + 1)" is the name of no animation of the collection. On a
\* collision it returns an empty result, emits no signal and leaves the sequence,
\* currentIndex and createdCount as they were; on success the name of the new
\* animation differs from the name of every other animation of the collection.
C11_CreateRefusedOnCollision ==
    Called("addNewAnimation") =>
        IF GeneratedBefore \in NamesIn(pre.anims)
        THEN /\ lastOp.name = EmptyString
             /\ emitted = <<>>
             /\ mAnimations = pre.anims
             /\ mCurrentAnimationIndex = pre.cur
             /\ mAnimationsCreated = pre.created
        ELSE /\ lastOp.name = GeneratedBefore
             /\ Count = Len(pre.anims) + 1
             /\ objs[mAnimations[Count]].name = lastOp.name
             /\ \A i \in 1 .. Count - 1 : objs[mAnimations[i]].name # lastOp.name

\* C11 happens: createAnimation is called while the name it generates is taken.
C11_Witness ==
    /\ Called("addNewAnimation")
    /\ GeneratedBefore \in NamesIn(pre.anims)
    /\ Count >= 1

\* the last call handed out a generated name: a createAnimation that succeeded,
\* or a read of a document of the old format
HandedOutName ==
    \/ Called("addNewAnimation") /\ lastOp.name # EmptyString
    \/ Called("readLegacy")

\* the name it handed out: the one createAnimation returned, or the name of the
\* animation the read inserted at the front
NameHandedOut ==
    IF Called("addNewAnimation") THEN lastOp.name ELSE objs[mAnimations[1]].name

\* C12: no call but reset decreases createdCount; a createAnimation that succeeds
\* and a read of the old format each increase it by exactly one, so that the name
\* handed out is none of "Animation 1" .. "Animation createdCount" handed out
\* since the last reset.
C12_CreatedCountMonotonic ==
    /\ lastOp.op # "reset" => mAnimationsCreated >= pre.created
    /\ HandedOutName =>
        /\ mAnimationsCreated = pre.created + 1
        /\ \A k \in 1 .. pre.created : NameHandedOut # <<"Animation ">> \o arg(k)

\* C12 happens: a second name is handed out after an animation was removed.
C12_Witness ==
    /\ HandedOutName
    /\ pre.created >= 1
    /\ Len(pre.anims) = 0

\* C13: after reset() the sequence is empty, currentIndex is -1 and
\* currentAnimation() is none, createdCount is 0 and the playback is in its
\* initial state, bound to no animation.
C13_ResetRestoresInitial ==
    Called("reset") =>
        /\ mAnimations = <<>>
        /\ mCurrentAnimationIndex = -1
        /\ currentAnimation(State) = {NoAnimation}
        /\ mAnimationsCreated = 0
        /\ mCurrentAnimationPlayback = InitialPlayback

\* C14: a structural change that succeeds and changes the size of the collection
\* (createAnimation, insertAnimation, remove by name, detach by index) emits
\* animationCountChanged, after its post signal.
C14_CountChangedAfterPost ==
    /\ Added =>
        /\ Emitted("animationCountChanged") # {}
        /\ \A i \in Emitted("postAnimationAdded"), j \in Emitted("animationCountChanged") :
            i < j
    /\ Removed =>
        /\ Emitted("animationCountChanged") # {}
        /\ \A i \in Emitted("postAnimationRemoved"), j \in Emitted("animationCountChanged") :
            i < j

\* C15: the index of the preAnimationAdded and postAnimationAdded signals of a
\* createAnimation that succeeds is the position of the new animation once it is
\* appended: the size of the collection before the call.
C15_CreateSignalsCarryNewPosition ==
    (Called("addNewAnimation") /\ lastOp.name # EmptyString) =>
        \A i \in Emitted("preAnimationAdded") \cup Emitted("postAnimationAdded") :
            /\ emitted[i].index = Len(pre.anims)
            /\ emitted[i].index = Count - 1

\* the position in the sequence as it was before the last call of the first
\* animation with the name the call was given (its length when there is none)
PositionBefore ==
    findAnimationWithName([objs |-> objs, anims |-> pre.anims], lastOp.nameArg)

\* C16: removing by name an animation at position p of a collection of size >= 2
\* with current index c makes currentIndex c - 1 if p <= c and leaves it as it was
\* otherwise; the element at p is removed and the others keep their order.
C16_RemoveByNameShiftsCurrentIndex ==
    (Called("takeAnimationByName") /\ Len(pre.anims) >= 2
        /\ PositionBefore < Len(pre.anims)) =>
        /\ mCurrentAnimationIndex =
            IF PositionBefore <= pre.cur THEN pre.cur - 1 ELSE pre.cur
        /\ mAnimations = RemoveAt(pre.anims, PositionBefore)

\* C17: setCurrentIndex(i) with i in [0, size] and i not the current index sets
\* currentIndex to i, binds the playback to the animation looked up at i and
\* emits exactly one currentAnimationIndexChanged signal; with i outside
\* [0, size] or i the current index it changes nothing and emits nothing.
C17_SetCurrentIndexEffect ==
    lastOp.op = "setCurrentAnimationIndex" =>
        IF lastOp.index \in 0 .. Len(pre.anims) /\ lastOp.index # pre.cur
        THEN /\ mCurrentAnimationIndex = lastOp.index
             /\ mCurrentAnimationPlayback.animation \in at(State, lastOp.index)
             /\ mAnimations = pre.anims
             /\ mAnimationsCreated = pre.created
             /\ Len(emitted) = 1
             /\ Emitted("currentAnimationIndexChanged") = {1}
        ELSE MembersUnchanged /\ emitted = <<>>

\* C18: takeAnimation(i) with i the index of an element removes exactly the
\* element at i and returns it, leaves currentIndex as it was whatever the
\* relation between i and currentIndex, and emits no
\* currentAnimationIndexChanged signal.
C18_DetachKeepsCurrentIndex ==
    (Called("takeAnimationAt") /\ lastOp.index \in 0 .. Len(pre.anims) - 1) =>
        /\ lastOp.result = pre.anims[lastOp.index + 1]
        /\ mAnimations = RemoveAt(pre.anims, lastOp.index)
        /\ mCurrentAnimationIndex = pre.cur
        /\ Emitted("currentAnimationIndexChanged") = {}

\* C18 happens: the element detached is the current one or one before it.
C18_Witness ==
    /\ Called("takeAnimationAt")
    /\ pre.cur \in 0 .. Len(pre.anims) - 1
    /\ lastOp.index \in 0 .. pre.cur
    /\ Count = Len(pre.anims) - 1

\* the animations the last call took out of the sequence
Gone == Elements(pre.anims) \ Elements(mAnimations)

\* the object exists: it was made and never deleted
Alive(a) == objs[a] # Unreachable

\* C19: an animation leaves the sequence in one of two ways. Removal by name and
\* reset destroy it: afterwards it is not alive, nor owned by the collection.
\* Detaching by index hands it to the caller, alive and with no parent. No call
\* leaves an animation alive outside the sequence and still owned by the
\* collection.
C19_RemovedDestroyedOrHandedOver ==
    ~aborted =>
        /\ Gone # {} =>
            Called("takeAnimationByName") \/ Called("reset") \/ Called("takeAnimationAt")
        /\ (Called("takeAnimationByName") \/ Called("reset")) =>
            \A a \in Gone : ~Alive(a)
        /\ Called("takeAnimationAt") =>
            \A a \in Gone : Alive(a) /\ objs[a].parent = "nullptr" /\ lastOp.result = a
        /\ \A a \in Gone : ~(Alive(a) /\ objs[a].parent = "this")

\* createAnimation called now is refused: the test of addNewAnimation finds the
\* name it generates in the collection
CreateRefusedNow ==
    findAnimationWithName(State, peekNextGeneratedName(State)) # Count

\* an animation that had the generated name before the last call is still in
\* the sequence
BlockingAnimationStays ==
    \E a \in Elements(pre.anims) \cap Elements(mAnimations) :
        objs[a].name = GeneratedBefore

\* what C20 says of read and of a refused createAnimation: a read of the current
\* format appends to the sequence and leaves createdCount as it was, and so
\* does a createAnimation refused on a collision
ReadAndRefusalKeepCreatedCount ==
    /\ Called("read") =>
        /\ mAnimationsCreated = pre.created
        /\ SubSeq(mAnimations, 1, Len(pre.anims)) = pre.anims
    /\ (Called("addNewAnimation") /\ lastOp.name = EmptyString) =>
        mAnimationsCreated = pre.created

\* C20 as stated: a read of the current format and a refused createAnimation
\* leave createdCount as it was; and while an animation named "Animation
\* (createdCount + 1)" stays in the collection createAnimation is refused, until
\* that animation is removed or reset is called.
C20_BlockedUntilRemovedOrReset ==
    ~aborted =>
        /\ ReadAndRefusalKeepCreatedCount
        /\ (BlockingAnimationStays /\ ~Called("reset")) => CreateRefusedNow

\* C20 amended: ... until that animation is removed, reset is called, or a read
\* of a document of the old format advances createdCount.
C20_BlockedUntilRemovedResetOrLegacyRead ==
    ~aborted =>
        /\ ReadAndRefusalKeepCreatedCount
        /\ (BlockingAnimationStays /\ ~Called("reset") /\ ~Called("readLegacy")) =>
            CreateRefusedNow

\* C20 happens: createAnimation is refused while an animation has the generated
\* name, and afterwards createdCount is as before and a retry is refused again.
C20_Witness ==
    /\ Called("addNewAnimation")
    /\ lastOp.name = EmptyString
    /\ BlockingAnimationStays
    /\ mAnimationsCreated = pre.created
    /\ CreateRefusedNow

====
